---- MODULE Spec2Model ----
(***************************************************************************)
(* Model of the Abstract PDF Generator (src/main.py): the credential       *)
(* selection of configure_api, the layout computations of create_pdf and   *)
(* the per-interaction control flow of main.                               *)
(*                                                                         *)
(* Strings are sequences of one-character strings.  Lengths are in tenths  *)
(* of a millimetre so that the 25.4 mm margins are integers.               *)
(***************************************************************************)
EXTENDS Integers, Sequences, FiniteSets, TLC

\* ------------------------------------------------------------------ bounds
NumAuthors == 2             \* author fields of the form (the source has five)
MaxLen == 4                 \* longest abstract given to create_pdf on its own
MaxAuthorLen == 3           \* longest author name over AuthorAlphabet
MaxWideLen == 6             \* longest author name made of wide glyphs
MaxRenderAuthors == 2       \* longest author list given to create_pdf on its own

\* ------------------------------------------------------- string primitives
\* characters str.split() / str.strip() treat as whitespace
Whitespace == {" ", "\n"}

\* a character with no latin-1 encoding
Unencodable == "\\u20ac"

\* the characters abstracts are drawn from
Alphabet == {"a", " ", "\n", Unencodable}

\* the characters author names are drawn from
AuthorAlphabet == {"a", " "}

\* all sequences over S of length at most n
SeqsUpTo(S, n) == UNION {[1..k -> S] : k \in 0..n}

\* Python truthiness of a str: non-empty
Truthy(s) == Len(s) > 0

RECURSIVE lstrip(_)
lstrip(s) == IF s = <<>> \/ Head(s) \notin Whitespace THEN s ELSE lstrip(Tail(s))

RECURSIVE rstrip(_)
rstrip(s) ==
  IF s = <<>> \/ s[Len(s)] \notin Whitespace THEN s ELSE rstrip(SubSeq(s, 1, Len(s) - 1))

\* str.strip(): leading and trailing whitespace removed
strip(s) == rstrip(lstrip(s))

\* str.split() without a separator: words are the maximal runs of
\* non-whitespace characters; cur is the word being read, acc the words read
RECURSIVE SplitLoop(_, _, _)
SplitLoop(s, cur, acc) ==
  IF s = <<>>
    THEN IF cur = <<>> THEN acc ELSE Append(acc, cur)
    ELSE IF Head(s) \in Whitespace
           THEN SplitLoop(Tail(s), <<>>, IF cur = <<>> THEN acc ELSE Append(acc, cur))
           ELSE SplitLoop(Tail(s), Append(cur, Head(s)), acc)

split(s) == SplitLoop(s, <<>>, <<>>)

\* sep.join(words)
RECURSIVE join(_, _)
join(sep, words) ==
  IF words = <<>> THEN <<>>
  ELSE IF Len(words) = 1 THEN words[1]
  ELSE words[1] \o sep \o join(sep, Tail(words))

\* mutant of NormalizeAbstract: abstract.strip() instead of the split and join
NormalizeStripOnly(abstract) == strip(abstract)

\* ' '.join(abstract.split())
NormalizeAbstract(abstract) == join(<<" ">>, split(abstract))

LowerCase ==
  <<"a", "b", "c", "d", "e", "f", "g", "h", "i", "j", "k", "l", "m",
    "n", "o", "p", "q", "r", "s", "t", "u", "v", "w", "x", "y", "z">>

UpperCase ==
  <<"A", "B", "C", "D", "E", "F", "G", "H", "I", "J", "K", "L", "M",
    "N", "O", "P", "Q", "R", "S", "T", "U", "V", "W", "X", "Y", "Z">>

\* str.upper(): lower-case letters are replaced, the rest is kept
upper(s) ==
  [i \in 1..Len(s) |->
     IF \E k \in 1..26 : LowerCase[k] = s[i]
       THEN UpperCase[CHOOSE k \in 1..26 : LowerCase[k] = s[i]]
       ELSE s[i]]

HasUnencodable(s) == \E i \in 1..Len(s) : s[i] = Unencodable

\* --------------------------------------------------------------- create_pdf
\* A4 page width and the right margin of PDF.__init__, in 0.1 mm
page_w == 2100
r_margin == 254

PreparedBy == <<"P", "r", "e", "p", "a", "r", "e", "d", " ", "B", "y", ",">>

\* advance width of one glyph in Times 12pt, in 0.1 mm
GlyphWidth(c) ==
  CASE c \in {" ", ","} -> 11
    [] c \in {"r"} -> 14
    [] c \in {"a", "e"} -> 19
    [] c \in {"p", "d", "y"} -> 21
    [] c = "P" -> 24
    [] c = "B" -> 28
    [] c = "W" -> 40
    [] OTHER -> 21

\* pdf.get_string_width(line)
RECURSIVE get_string_width(_)
get_string_width(line) ==
  IF line = <<>> THEN 0 ELSE GlyphWidth(Head(line)) + get_string_width(Tail(line))

\* mutant of AuthorEntries: the filter is "if author", without the strip
RECURSIVE AuthorEntriesUnstrippedFilter(_)
AuthorEntriesUnstrippedFilter(authors) ==
  IF authors = <<>> THEN <<>>
  ELSE IF Truthy(Head(authors))
         THEN <<strip(Head(authors)) \o <<",">> >> \o AuthorEntriesUnstrippedFilter(Tail(authors))
         ELSE AuthorEntriesUnstrippedFilter(Tail(authors))

\* [author.strip() + "," for author in authors if author.strip()]
RECURSIVE AuthorEntries(_)
AuthorEntries(authors) ==
  IF authors = <<>> THEN <<>>
  ELSE IF Truthy(strip(Head(authors)))
         THEN <<strip(Head(authors)) \o <<",">> >> \o AuthorEntries(Tail(authors))
         ELSE AuthorEntries(Tail(authors))

AuthorLines(authors) == <<PreparedBy>> \o AuthorEntries(authors)

Max(a, b) == IF a >= b THEN a ELSE b

\* mutant of MaxWidthLoop: "max_width = width", the last line's width wins
MaxWidthLast(lines, acc) ==
  IF lines = <<>> THEN acc ELSE get_string_width(lines[Len(lines)])

\* the first loop over lines: max_width = max(max_width, width), from acc
RECURSIVE MaxWidthLoop(_, _)
MaxWidthLoop(lines, acc) ==
  IF lines = <<>> THEN acc
  ELSE MaxWidthLoop(Tail(lines), Max(acc, get_string_width(Head(lines))))

XPosition(max_width) == page_w - r_margin - max_width

\* the second loop over lines: set_x(x_position), then one cell of width
\* max_width, left-aligned, holding the line
EmitCells(lines, x_position, max_width) ==
  [i \in 1..Len(lines) |->
     [x |-> x_position, w |-> max_width, txt |-> lines[i],
      txt_w |-> get_string_width(lines[i])]]

EncodeError == "'latin-1' codec can't encode character"

\* create_pdf(title, abstract, authors): the texts laid out and either the
\* document (raised = FALSE) or the encoding failure (raised = TRUE)
create_pdf(title, abstract, authors) ==
  LET title_txt == upper(title)
      abstract_txt == NormalizeAbstract(abstract)
      lines == AuthorLines(authors)
      max_width == MaxWidthLoop(lines, 0)
      x_position == XPosition(max_width)
      cells == EmitCells(lines, x_position, max_width)
      bad == \/ HasUnencodable(title_txt)
             \/ HasUnencodable(abstract_txt)
             \/ \E i \in 1..Len(lines) : HasUnencodable(lines[i])
  IN [raised |-> bad,
      msg |-> IF bad THEN EncodeError ELSE "",
      title_txt |-> title_txt,
      abstract_txt |-> abstract_txt,
      lines |-> lines,
      max_width |-> max_width,
      x_position |-> x_position,
      cells |-> cells]

\* render_res before create_pdf has been called
NotRendered ==
  [raised |-> FALSE, msg |-> "", title_txt |-> <<>>, abstract_txt |-> <<>>,
   lines |-> <<>>, max_width |-> 0, x_position |-> 0, cells |-> <<>>]

\* ------------------------------------------------------------ configure_api
\* a key that is not there: no 'user_api_key' in st.session_state, a KeyError
\* from st.secrets, no GEMINI_API_KEY in the process environment
Missing == "<missing>"
None == "<None>"
UserKey == "user-key"
SecretKey == "secret-key"
EnvKey == "env-key"

\* Python truthiness of an api key value
KeyTruthy(k) == k \notin {None, ""}

\* os.getenv("GEMINI_API_KEY")
getenv(env) == IF env = Missing THEN None ELSE env

\* try: st.secrets["GEMINI_API_KEY"]  except: os.getenv("GEMINI_API_KEY")
SecretsOrEnv(secret, env) == IF secret = Missing THEN getenv(env) ELSE secret

\* the api_key configure_api settles on
SelectApiKey(user_key, secret, env) ==
  IF user_key # Missing /\ KeyTruthy(user_key)
    THEN user_key
    ELSE SecretsOrEnv(secret, env)

\* configure_api(): ok is the return value, key the key given to genai.configure
configure_api(user_key, secret, env) ==
  LET api_key == SelectApiKey(user_key, secret, env)
  IN IF KeyTruthy(api_key)
       THEN [ok |-> TRUE, key |-> api_key]
       ELSE [ok |-> FALSE, key |-> None]

\* --------------------------------------------------------------------- main
NoButton == "none"
GeneratePDF == "Generate PDF"
GenerateWithAI == "Generate with AI"

NoRequest == [title |-> <<>>, abstract |-> <<>>, authors |-> <<>>]

\* what one run of the script shows and calls; exc is an exception that has
\* been raised and not (yet) caught
NoEffects ==
  [errors |-> {}, warnings |-> {}, success |-> FALSE, downloads |-> {},
   gen_called |-> FALSE, gen_raised |-> FALSE,
   pdf_called |-> FALSE, pdf_raised |-> FALSE,
   pdf_req |-> NoRequest,
   stored |-> FALSE, stored_val |-> <<>>,
   exc |-> FALSE, exc_msg |-> ""]

\* any(authors)
AnyAuthor(authors) == \E i \in 1..Len(authors) : Truthy(authors[i])

\* mutant of SidebarUserKey: no else branch, the session keeps the earlier key
SidebarKeepsKey(use_own, key_text, prev) == IF use_own THEN key_text ELSE prev

\* the sidebar: st.session_state.user_api_key after the checkbox is read
SidebarUserKey(use_own, key_text, prev) == IF use_own THEN key_text ELSE None

\* the try block of tab1: create_pdf, the download button, the success message
ManualTry(title, abstract, authors) ==
  LET req == [title |-> title, abstract |-> abstract, authors |-> authors]
      res == create_pdf(title, abstract, authors)
      called == [NoEffects EXCEPT !.pdf_called = TRUE, !.pdf_req = req,
                                  !.pdf_raised = res.raised]
  IN IF res.raised
       THEN [called EXCEPT !.exc = TRUE, !.exc_msg = res.msg]
       ELSE [called EXCEPT !.downloads = {"Download PDF"}, !.success = TRUE]

\* mutant of ManualExcept: the message of the exception is not shown
ManualExceptNoMessage(fx) ==
  IF fx.exc
    THEN [fx EXCEPT !.exc = FALSE,
                    !.errors = {[text |-> "An error occurred: ", detail |-> ""]}]
    ELSE fx

\* "except Exception as e: st.error(f'An error occurred: {str(e)}')"
ManualExcept(fx) ==
  IF fx.exc
    THEN [fx EXCEPT !.exc = FALSE,
                    !.errors = {[text |-> "An error occurred: ", detail |-> fx.exc_msg]}]
    ELSE fx

\* mutant of ManualTab: any(authors) is not part of the condition
ManualTabNoAuthorCheck(title, abstract, authors) ==
  IF Truthy(title) /\ Truthy(abstract)
    THEN ManualExcept(ManualTry(title, abstract, authors))
    ELSE [NoEffects EXCEPT !.warnings =
            {"Please fill in all required fields (Title, Abstract, and at least one Author)."}]

\* "with tab1": the body of "if st.button('Generate PDF')"
ManualTab(title, abstract, authors) ==
  IF Truthy(title) /\ Truthy(abstract) /\ AnyAuthor(authors)
    THEN ManualExcept(ManualTry(title, abstract, authors))
    ELSE [NoEffects EXCEPT !.warnings =
            {"Please fill in all required fields (Title, Abstract, and at least one Author)."}]

\* "with col2": the PDF column of the AI tab, after the abstract was generated
AIPdfColumn(fx, title, generated_abstract, authors) ==
  IF AnyAuthor(authors)
    THEN LET req == [title |-> title, abstract |-> generated_abstract,
                     authors |-> authors]
             res == create_pdf(title, generated_abstract, authors)
             called == [fx EXCEPT !.pdf_called = TRUE, !.pdf_req = req,
                                  !.pdf_raised = res.raised]
         IN IF res.raised
              THEN [called EXCEPT !.exc = TRUE, !.exc_msg = res.msg]
              ELSE [called EXCEPT !.downloads = @ \cup {"Download as PDF"}]
    ELSE [fx EXCEPT !.warnings =
            {"Please fill in at least one author for PDF generation."}]

\* what the AI tab does once generate_ai_abstract has returned: the abstract
\* is stored in the session and shown, the TXT download is offered (col1)
AIGenerated(fx, text) ==
  [fx EXCEPT !.stored = TRUE, !.stored_val = text,
             !.downloads = {"Download Abstract as TXT"}]

\* the try block of tab2; gen is the outcome of generate_ai_abstract(title)
AITry(title, authors, gen) ==
  LET called == [NoEffects EXCEPT !.gen_called = TRUE, !.gen_raised = gen.raised]
  IN IF gen.raised
       THEN [called EXCEPT !.exc = TRUE, !.exc_msg = gen.msg]
       ELSE AIPdfColumn(AIGenerated(called, gen.text), title, gen.text, authors)

\* mutant of AIExcept: the handler also resets the stored abstract
AIExceptResetsAbstract(fx) ==
  IF fx.exc
    THEN [fx EXCEPT !.exc = FALSE, !.stored = TRUE, !.stored_val = <<>>,
                    !.errors = {[text |-> "Error generating abstract: ",
                                 detail |-> fx.exc_msg]}]
    ELSE fx

\* "except Exception as e: st.error(f'Error generating abstract: {str(e)}')"
AIExcept(fx) ==
  IF fx.exc
    THEN [fx EXCEPT !.exc = FALSE,
                    !.errors = {[text |-> "Error generating abstract: ",
                                 detail |-> fx.exc_msg]}]
    ELSE fx

\* "with tab2": the body of "if generate_button"
AITab(title, authors, gen) ==
  IF ~Truthy(title)
    THEN [NoEffects EXCEPT !.warnings = {"Please enter a title first."}]
    ELSE AIExcept(AITry(title, authors, gen))

\* the two tabs: at most one button is pressed in a run
Tabs(button, title, abstract, authors, gen) ==
  CASE button = GeneratePDF -> ManualTab(title, abstract, authors)
    [] button = GenerateWithAI -> AITab(title, authors, gen)
    [] OTHER -> NoEffects

ConfigError ==
  [text |-> "API configuration error. Please contact the administrator or use your own API key.",
   detail |-> ""]

\* mutant of AfterConfigure: the error is shown but main does not return
AfterConfigureNoReturn(api_configured, tabs_fx) ==
  IF ~api_configured
    THEN [tabs_fx EXCEPT !.errors = @ \cup {ConfigError}]
    ELSE tabs_fx

\* "if not api_configured: st.error(...); return", else the form and the tabs
AfterConfigure(api_configured, tabs_fx) ==
  IF ~api_configured
    THEN [NoEffects EXCEPT !.errors = {ConfigError}]
    ELSE tabs_fx

\* ------------------------------------------------------------------- inputs
TitleInputs == {<<>>, <<"a">>, <<Unencodable>>}
AbstractInputs == {<<>>, <<"a", "\n", "a">>}
AuthorInputs == {<<>>, <<" ">>}
KeyInputs == {"", UserKey}
SecretValues == {Missing, "", SecretKey}
EnvValues == {Missing, "", EnvKey}

\* generate_ai_abstract(title): response.text, or the exception of the call
GenTexts == {<<>>, <<"a", " ", "a">>}
GenFailures == {"429 quota exceeded"}
GenOutcomes ==
  {[raised |-> FALSE, text |-> t, msg |-> ""] : t \in GenTexts}
    \cup {[raised |-> TRUE, text |-> <<>>, msg |-> m] : m \in GenFailures}
NoGen == [raised |-> FALSE, text |-> <<>>, msg |-> ""]

DefaultAuthor == <<"a">>
default_authors == [i \in 1..NumAuthors |-> DefaultAuthor]

\* -------------------------------------------------------------------- state
VARIABLES
  secret,              \* st.secrets["GEMINI_API_KEY"], Missing when not there
  env,                 \* GEMINI_API_KEY of the process environment
  use_own_key,         \* the sidebar checkbox
  key_input,           \* the sidebar key field
  title,               \* "Document Title"
  authors,             \* "Author i"
  abstract,            \* the manual tab's text area
  user_api_key,        \* st.session_state.user_api_key
  generated_abstract,  \* st.session_state.generated_abstract: [set, val]
  genai_key,           \* the key genai is configured with
  run,                 \* the last run of main: button, outcome of configure_api, effects
  render_req,          \* the arguments of a create_pdf call studied on its own
  render_res           \* what that call computed

vars ==
  <<secret, env, use_own_key, key_input, title, authors, abstract, user_api_key,
    generated_abstract, genai_key, run, render_req, render_res>>

widgets == <<use_own_key, key_input, title, authors, abstract>>

NoRun ==
  [button |-> NoButton, api_configured |-> FALSE, selected_key |-> None, fx |-> NoEffects]

\* a fresh session before the script has run
Init ==
  /\ secret \in SecretValues
  /\ env \in EnvValues
  /\ use_own_key = FALSE
  /\ key_input = ""
  /\ title = <<>>
  /\ authors = default_authors
  /\ abstract = <<>>
  /\ user_api_key = Missing
  /\ generated_abstract = [set |-> FALSE, val |-> <<>>]
  /\ genai_key = None
  /\ run = NoRun
  /\ render_req = NoRequest
  /\ render_res = NotRendered

\* One run of main() on the widget values of the next state: the sidebar, then
\* configure_api, then the form and the pressed button's tab.
Main(button, gen) ==
  LET key == SidebarUserKey(use_own_key', key_input', user_api_key)
      cfg == configure_api(key, secret, env)
      fx == AfterConfigure(cfg.ok, Tabs(button, title', abstract', authors', gen))
  IN /\ user_api_key' = key
     /\ genai_key' = IF cfg.ok THEN cfg.key ELSE genai_key
     /\ generated_abstract' =
          IF fx.stored THEN [set |-> TRUE, val |-> fx.stored_val] ELSE generated_abstract
     /\ run' = [button |-> button, api_configured |-> cfg.ok,
                selected_key |-> cfg.key, fx |-> fx]
     /\ UNCHANGED <<secret, env, render_req, render_res>>

\* the page is loaded or reloaded
Rerun ==
  /\ UNCHANGED widgets
  /\ Main(NoButton, NoGen)

ToggleOwnKey ==
  /\ use_own_key' = ~use_own_key
  /\ UNCHANGED <<key_input, title, authors, abstract>>
  /\ Main(NoButton, NoGen)

EnterApiKey(k) ==
  /\ use_own_key
  /\ key_input' = k
  /\ UNCHANGED <<use_own_key, title, authors, abstract>>
  /\ Main(NoButton, NoGen)

\* the form is on the page only when the last run got past configure_api
FormShown == run.api_configured

EnterTitle(t) ==
  /\ FormShown
  /\ title' = t
  /\ UNCHANGED <<use_own_key, key_input, authors, abstract>>
  /\ Main(NoButton, NoGen)

EnterAuthor(i, a) ==
  /\ FormShown
  /\ authors' = [authors EXCEPT ![i] = a]
  /\ UNCHANGED <<use_own_key, key_input, title, abstract>>
  /\ Main(NoButton, NoGen)

EnterAbstract(a) ==
  /\ FormShown
  /\ abstract' = a
  /\ UNCHANGED <<use_own_key, key_input, title, authors>>
  /\ Main(NoButton, NoGen)

PressGeneratePDF ==
  /\ FormShown
  /\ UNCHANGED widgets
  /\ Main(GeneratePDF, NoGen)

PressGenerateWithAI(gen) ==
  /\ FormShown
  /\ UNCHANGED widgets
  /\ Main(GenerateWithAI, gen)

\* the platform's secret store is edited between two runs
SecretStoreChanged(v) ==
  /\ secret' = v
  /\ secret' # secret
  /\ UNCHANGED <<env, use_own_key, key_input, title, authors, abstract, user_api_key,
                 generated_abstract, genai_key, run, render_req, render_res>>

Next ==
  \/ Rerun
  \/ ToggleOwnKey
  \/ \E k \in KeyInputs : EnterApiKey(k)
  \/ \E t \in TitleInputs : EnterTitle(t)
  \/ \E i \in 1..NumAuthors : \E a \in AuthorInputs \cup {DefaultAuthor} : EnterAuthor(i, a)
  \/ \E a \in AbstractInputs : EnterAbstract(a)
  \/ PressGeneratePDF
  \/ \E gen \in GenOutcomes : PressGenerateWithAI(gen)
  \/ \E v \in SecretValues : SecretStoreChanged(v)

Spec == Init /\ [][Next]_vars

\* ------------------------------------------------- create_pdf on its own
Abstracts == SeqsUpTo(Alphabet, MaxLen)

WideAuthors == {[i \in 1..n |-> "W"] : n \in 5..MaxWideLen}

AuthorNames == SeqsUpTo(AuthorAlphabet, MaxAuthorLen) \cup WideAuthors

AuthorLists == SeqsUpTo(AuthorNames, MaxRenderAuthors)

\* title="Test Paper", abstract="This   is\na test.", authors=["Alice", "", " Bob "]
ExampleRequest ==
  [title |-> <<"T", "e", "s", "t", " ", "P", "a", "p", "e", "r">>,
   abstract |-> <<"T", "h", "i", "s", " ", " ", " ", "i", "s", "\n",
                  "a", " ", "t", "e", "s", "t", ".">>,
   authors |-> << <<"A", "l", "i", "c", "e">>, <<>>, <<" ", "B", "o", "b", " ">> >>]

\* the calls studied: every abstract with the default authors, every author
\* list with a one-word abstract, and the example request
RenderInputs ==
  {[title |-> <<"a">>, abstract |-> a, authors |-> default_authors] : a \in Abstracts}
    \cup {[title |-> <<"a">>, abstract |-> <<"a">>, authors |-> as] : as \in AuthorLists}
    \cup {ExampleRequest}

Rendered == render_res # NotRendered

InitRender ==
  /\ secret = Missing
  /\ env = Missing
  /\ use_own_key = FALSE
  /\ key_input = ""
  /\ title = <<>>
  /\ authors = default_authors
  /\ abstract = <<>>
  /\ user_api_key = Missing
  /\ generated_abstract = [set |-> FALSE, val |-> <<>>]
  /\ genai_key = None
  /\ run = NoRun
  /\ render_req \in RenderInputs
  /\ render_res = NotRendered

Render ==
  /\ ~Rendered
  /\ render_res' = create_pdf(render_req.title, render_req.abstract, render_req.authors)
  /\ UNCHANGED <<secret, env, use_own_key, key_input, title, authors, abstract,
                 user_api_key, generated_abstract, genai_key, run, render_req>>

NextRender == Render

SpecRender == InitRender /\ [][NextRender]_vars

\* ------------------------------------------------------------- properties
IsBlank(s) == \A j \in 1..Len(s) : s[j] \in Whitespace

SetMax(S) == CHOOSE m \in S : \A n \in S : n <= m
SetMin(S) == CHOOSE m \in S : \A n \in S : m <= n

\* s without its leading and trailing whitespace, for a s that is not blank
Trimmed(s) ==
  LET nz == {j \in 1..Len(s) : s[j] \notin Whitespace}
  IN SubSeq(s, SetMin(nz), SetMax(nz))

\* the positions of the author list that survive the filter
Surviving(as) == {i \in 1..Len(as) : ~IsBlank(as[i])}

\* C3: the author block is "Prepared By," followed by one line per author
\* that is not empty or whitespace-only, trimmed and suffixed with a comma,
\* in the original order; blank entries are dropped and nothing else is.
AuthorBlockFiltered ==
  Rendered =>
    LET as == render_req.authors
        keep == Surviving(as)
        lines == render_res.lines
    IN /\ Len(lines) = 1 + Cardinality(keep)
       /\ lines[1] = PreparedBy
       /\ \A i \in keep :
            lines[1 + Cardinality({j \in keep : j <= i})] = Trimmed(as[i]) \o <<",">>

\* C3 witness: authors ["Alice", "", " Bob "] give exactly "Alice," and "Bob,"
AuthorBlockFilteredWitness ==
  /\ Rendered
  /\ render_req = ExampleRequest
  /\ ~render_res.raised
  /\ render_res.lines =
       <<PreparedBy, <<"A", "l", "i", "c", "e", ",">>, <<"B", "o", "b", ",">> >>

\* C7: the abstract create_pdf lays out is a fixed point of the whitespace
\* normalisation, has no whitespace at either end and no two adjacent
\* whitespace characters.
NormalizeIdempotent ==
  Rendered =>
    LET n == render_res.abstract_txt
    IN /\ NormalizeAbstract(n) = n
       /\ n # <<>> => n[1] \notin Whitespace /\ n[Len(n)] \notin Whitespace
       /\ \A j \in 1..(Len(n) - 1) : ~(n[j] \in Whitespace /\ n[j + 1] \in Whitespace)

\* C7 witness: an abstract with a whitespace run inside and whitespace at an
\* end has been normalised to two words
NormalizeIdempotentWitness ==
  /\ Rendered
  /\ render_req.abstract = <<"a", " ", "\n", "a">>
  /\ render_res.abstract_txt = <<"a", " ", "a">>

\* C8: every line of the author block is emitted at
\* page_width - right_margin - max(line widths), the maximum being over all
\* lines including "Prepared By,"; the widest line ends at the right margin
\* and no line ends past it.
AuthorBlockRightAligned ==
  Rendered =>
    LET lines == render_res.lines
        cells == render_res.cells
        widths == {get_string_width(lines[i]) : i \in 1..Len(lines)}
        x0 == page_w - r_margin - SetMax(widths)
    IN /\ Len(cells) = Len(lines)
       /\ \A i \in 1..Len(cells) : cells[i].txt = lines[i] /\ cells[i].x = x0
       /\ \E i \in 1..Len(cells) : cells[i].x + cells[i].txt_w = page_w - r_margin
       /\ \A i \in 1..Len(cells) : cells[i].x + cells[i].txt_w <= page_w - r_margin

\* C8 witness: an author line is wider than "Prepared By," and is not the
\* last line of the block
AuthorBlockRightAlignedWitness ==
  /\ Rendered
  /\ Len(render_res.lines) = 3
  /\ get_string_width(render_res.lines[2]) > get_string_width(PreparedBy)
  /\ get_string_width(render_res.lines[3]) < get_string_width(PreparedBy)

\* ---------------------------------------------------- properties of main
\* main has run at least once in this session
HasRun == user_api_key # Missing

ButtonPressed == run.button \in {GeneratePDF, GenerateWithAI}

PdfDownloads == {"Download PDF", "Download as PDF"}

\* C1: create_pdf is invoked only with a non-empty title, a non-empty
\* abstract and at least one non-empty author string, on either tab and
\* whatever the text generation returns.
RenderOnlyWithRequiredInputs ==
  run.fx.pdf_called =>
    /\ Truthy(run.fx.pdf_req.title)
    /\ Truthy(run.fx.pdf_req.abstract)
    /\ AnyAuthor(run.fx.pdf_req.authors)

\* a source supplies a key when it holds a non-empty value
Supplies(v) == v \notin {Missing, None, ""}

FirstSupplied(user, sec, en) ==
  IF Supplies(user) THEN user ELSE IF Supplies(sec) THEN sec ELSE en

\* C2: the key given to genai.configure is the one of the first source that
\* supplies one (session value, then secret store, then environment), and
\* configure_api returns False exactly when no source supplies a key.
CredentialPrecedence ==
  HasRun =>
    /\ run.api_configured <=>
         (Supplies(user_api_key) \/ Supplies(secret) \/ Supplies(env))
    /\ run.api_configured =>
         run.selected_key = FirstSupplied(user_api_key, secret, env)

\* C4: in a run whose text generation raised, exactly the error carrying the
\* failure message is shown, no exception escapes, create_pdf is not
\* invoked, nothing is offered for download, and the step of that run leaves
\* the title, the authors, the manual abstract and the stored generated
\* abstract as they were.
GenerationFailureRecoverable ==
  [][run'.fx.gen_raised =>
       /\ run'.button = GenerateWithAI
       /\ \E m \in GenFailures :
            run'.fx.errors = {[text |-> "Error generating abstract: ", detail |-> m]}
       /\ ~run'.fx.exc
       /\ ~run'.fx.pdf_called
       /\ run'.fx.downloads = {}
       /\ ~run'.fx.success
       /\ title' = title /\ authors' = authors /\ abstract' = abstract
       /\ generated_abstract' = generated_abstract]_vars

\* C4 witness: the generation failed in a session that holds an abstract
\* generated earlier
GenerationFailureWitness ==
  /\ run.fx.gen_raised
  /\ generated_abstract = [set |-> TRUE, val |-> <<"a", " ", "a">>]
  /\ Truthy(title)

\* C5 as stated: when create_pdf raises, the error with the underlying
\* message is shown, no exception escapes, and no download is offered and
\* no success message shown.
RenderFailureNoOutput ==
  run.fx.pdf_raised =>
    /\ \E e \in run.fx.errors : e.detail = EncodeError
    /\ ~run.fx.exc
    /\ run.fx.downloads = {}
    /\ ~run.fx.success

\* C5 amended: when create_pdf raises, the error with the underlying message
\* is shown, no exception escapes, no success message is shown and no PDF
\* download is offered; the manual tab offers no download at all, the AI tab
\* offers exactly the TXT download of the abstract it generated.
RenderFailureNoPdf ==
  run.fx.pdf_raised =>
    /\ \E e \in run.fx.errors : e.detail = EncodeError
    /\ ~run.fx.exc
    /\ ~run.fx.success
    /\ run.fx.downloads \cap PdfDownloads = {}
    /\ run.button = GeneratePDF => run.fx.downloads = {}
    /\ run.button = GenerateWithAI => run.fx.downloads = {"Download Abstract as TXT"}

\* C5 witness: create_pdf raised on the AI tab
RenderFailureWitnessAI ==
  /\ run.fx.pdf_raised
  /\ run.button = GenerateWithAI
  /\ run.fx.errors = {[text |-> "Error generating abstract: ", detail |-> EncodeError]}

\* the run reached the tab of the pressed button and a required input of
\* that tab is missing
RequiredMissing ==
  /\ run.api_configured
  /\ \/ run.button = GeneratePDF
        /\ ~(Truthy(title) /\ Truthy(abstract) /\ AnyAuthor(authors))
     \/ run.button = GenerateWithAI /\ ~(Truthy(title) /\ AnyAuthor(authors))

\* C6 as stated: on a button press with a required input missing, create_pdf
\* is not invoked and a warning is produced instead of an error.
MissingInputWarns ==
  RequiredMissing =>
    /\ ~run.fx.pdf_called
    /\ run.fx.warnings # {}
    /\ run.fx.errors = {}

\* C6 amended: on a button press with a required input missing, create_pdf
\* is never invoked, and a warning and no error is produced, except on the AI
\* tab with a title and no author when the text generation raises: then the
\* generation error is shown and no warning.
MissingInputNoRender ==
  RequiredMissing =>
    /\ ~run.fx.pdf_called
    /\ IF run.fx.gen_raised
         THEN /\ run.button = GenerateWithAI /\ Truthy(title) /\ ~AnyAuthor(authors)
              /\ run.fx.warnings = {}
              /\ \E m \in GenFailures :
                   run.fx.errors = {[text |-> "Error generating abstract: ", detail |-> m]}
         ELSE run.fx.warnings # {} /\ run.fx.errors = {}

\* C6 witness: the manual tab's button pressed with a title and an abstract
\* and every author field empty
MissingInputWitness ==
  /\ run.button = GeneratePDF
  /\ run.api_configured
  /\ Truthy(title) /\ Truthy(abstract) /\ ~AnyAuthor(authors)
  /\ run.fx.warnings # {}

\* C9: a run in which configure_api returned False shows the configuration
\* error and nothing else: generate_ai_abstract and create_pdf are not
\* invoked and no download is offered, whichever button was pressed.
NoCredentialNoWork ==
  (HasRun /\ ~run.api_configured) =>
    /\ run.fx.errors = {ConfigError}
    /\ ~run.fx.gen_called
    /\ ~run.fx.pdf_called
    /\ run.fx.downloads = {}
    /\ run.fx.warnings = {} /\ ~run.fx.success
    /\ run.fx.stored = FALSE

\* C9 witness: "Generate PDF" pressed with a complete form while no
\* credential is available
NoCredentialWitness ==
  /\ HasRun /\ ~run.api_configured
  /\ run.button = GeneratePDF
  /\ Truthy(title) /\ Truthy(abstract) /\ AnyAuthor(authors)
  /\ ~HasUnencodable(title)

\* C10: after every run the session's user key is the current key field when
\* the checkbox is checked and None when it is not, and in a run with the
\* checkbox unchecked or the key field empty the key selected is not a user
\* key, whatever was entered before.
UserKeyOverwritten ==
  HasRun =>
    /\ user_api_key = IF use_own_key THEN key_input ELSE None
    /\ (~use_own_key \/ key_input = "") => run.selected_key # UserKey

\* C10 witness: a user key was entered, the checkbox then unchecked, and the
\* run selected the secret store's key while genai had been configured with
\* the user key before
UserKeyOverwrittenWitness ==
  /\ HasRun
  /\ ~use_own_key
  /\ key_input = UserKey
  /\ run.selected_key = SecretKey
====
